---- MODULE Spec2Model ----
(***************************************************************************)
(* Model of the customer-service query router: LLMRouter (router.py) with  *)
(* its two handlers FAQAgent (agents/faq_agent.py) and OrderAgent          *)
(* (agents/order_agent.py) and the response contracts of dtos.py.          *)
(*                                                                         *)
(* A Python str is a sequence of characters; each character is a TLA+      *)
(* string.  Queries, keywords and order ids are written character by       *)
(* character, so that substring tests, case conversion and the order-id    *)
(* pattern are computed the way the code computes them.  The fixed texts   *)
(* of the messages are kept as single multi-character pieces, with the     *)
(* support contact a piece of its own.  None is the empty sequence and     *)
(* Some(x) the one-element sequence <<x>>.                                 *)
(*                                                                         *)
(* confidence is a float in [0, 1]; the model holds it in hundredths.      *)
(***************************************************************************)
EXTENDS Integers, Sequences, FiniteSets, TLC

VARIABLES
    unclear_count,    \* LLMRouter.unclear_count: session id -> counter
    knowledge_base,   \* FAQAgent.knowledge_base, in the dict's iteration order
    orders,           \* OrderAgent.orders: order id -> order record
    last,             \* the most recent call: its arguments, what it returned and
                      \*   what it did on the way (calls made, handler outcome,
                      \*   the order_id given to the order handler, the
                      \*   rewrite's outcome if one was asked for)
    hist,             \* observer: per session, what has happened to it so far:
                      \*   "new"       no UNCLEAR/low-confidence classification and no
                      \*               reset_session since construction
                      \*   "asked"     one such classification since construction or
                      \*               the last reset_session
                      \*   "repeated"  two or more of them
                      \*   "reset ..." reset_session, and no such classification since;
                      \*               the rest says what reset_session found: "reset
                      \*               empty" (no classification of that kind before
                      \*               it), "reset asked" or "reset repeated"
    threads           \* the route calls made from concurrently running threads,
                      \*   each with its position in route (pc), its arguments
                      \*   and local variables and, when it is done, what it
                      \*   returned; empty while the router is called from one
                      \*   thread only

vars == <<unclear_count, knowledge_base, orders, last, hist, threads>>

-----------------------------------------------------------------------------
\* Bounds of the model.

\* Largest number of topics of a knowledge base drawn in InitFAQ.
MaxTopics == 3

-----------------------------------------------------------------------------
\* Python values.

None == <<>>

Some(x) == <<x>>

\* Python truthiness of an optional str / optional dict: None and "" are falsy.
Truthy(opt) == opt # None /\ opt[1] # <<>>

Range(s) == {s[i] : i \in DOMAIN s}

\* str.lower() and str.upper() on the characters the model uses.
LowerTable ==
    ("O" :> "o") @@ ("R" :> "r") @@ ("D" :> "d") @@ ("H" :> "h") @@
    ("U" :> "u") @@ ("S" :> "s") @@ ("E" :> "e") @@ ("T" :> "t") @@
    ("N" :> "n") @@ ("I" :> "i") @@ ("P" :> "p")

LowerChar(c) == IF c \in DOMAIN LowerTable THEN LowerTable[c] ELSE c

UpperChar(c) ==
    IF \E u \in DOMAIN LowerTable : LowerTable[u] = c
    THEN CHOOSE u \in DOMAIN LowerTable : LowerTable[u] = c
    ELSE c

Lower(s) == [i \in DOMAIN s |-> LowerChar(s[i])]

Upper(s) == [i \in DOMAIN s |-> UpperChar(s[i])]

\* `sub in s` for two Python strs: sub occurs as a contiguous run of s.
OccursAt(sub, s, i) ==
    /\ i + Len(sub) - 1 <= Len(s)
    /\ \A k \in 1..Len(sub) : s[i + k - 1] = sub[k]

IsSubstring(sub, s) == \E i \in 1..(Len(s) + 1) : OccursAt(sub, s, i)

\* str.strip(): leading and trailing whitespace removed.
IsSpace(c) == c \in {" ", "\n"}

RECURSIVE LStrip(_)
LStrip(s) == IF s # <<>> /\ IsSpace(Head(s)) THEN LStrip(Tail(s)) ELSE s

RECURSIVE RStrip(_)
RStrip(s) ==
    IF s # <<>> /\ IsSpace(s[Len(s)]) THEN RStrip(SubSeq(s, 1, Len(s) - 1)) ELSE s

Strip(s) == RStrip(LStrip(s))

\* ", ".join(parts)
RECURSIVE Join(_)
Join(parts) ==
    IF parts = <<>> THEN <<>>
    ELSE IF Len(parts) = 1 THEN parts[1]
    ELSE parts[1] \o <<", ">> \o Join(Tail(parts))

-----------------------------------------------------------------------------
\* dtos.py

FAQ == "faq"

ORDER_STATUS == "order_status"

UNCLEAR == "unclear"

Intent == {FAQ, ORDER_STATUS, UNCLEAR}

\* AgentResponse(success, message, data=None, needs_clarification=False)
AgentResponse(success, message, data, needs_clarification) ==
    [success |-> success, message |-> message, data |-> data,
     needs_clarification |-> needs_clarification]

\* FinalResponse(query, intent, confidence, response, escalated=False)
FinalResponse(query, intent, confidence, response, escalated) ==
    [query |-> query, intent |-> intent, confidence |-> confidence,
     response |-> response, escalated |-> escalated]

-----------------------------------------------------------------------------
\* The text-generation capability (providers.py, LLMProvider.generate) as the
\* handlers use it for the optional rewrite.  What the backend answers is an
\* input of the call: it raises, or it returns some text.
Rewrites == {"raise", "prefix", "padded", "echo"}

\* The text returned by llm.generate(prompt, system) for a rewrite that does
\* not raise: the factual text with a friendly opening, a text of its own
\* with whitespace around it, or the factual text unchanged.
Generate(rw, factual) ==
    CASE rw = "prefix" -> <<"Sure! ">> \o factual
      [] rw = "padded" -> <<" ", "Happy to help.", "\n">>
      [] OTHER -> factual

-----------------------------------------------------------------------------
\* agents/faq_agent.py

FAQ_NO_INFO ==
    <<"I don't have information about that. I can help with: store hours, returns, shipping, payment, or contact info.">>

\* _refine whose failure loses the factual answer.
RefineFailureLosesAnswer(query, answer, rw) ==
    IF rw = "raise" THEN <<>> ELSE Strip(Strip(Generate(rw, answer)))

\* FAQAgent._refine: the rewrite, and the factual answer when it raises.
FAQAgent_refine(query, answer, rw) ==
    IF rw = "raise" THEN answer ELSE Strip(Strip(Generate(rw, answer)))

\* score = sum(1 for kw in content["keywords"] if kw in query_lower)
FAQScore(content, query_lower) ==
    Cardinality({i \in DOMAIN content.keywords :
                    IsSubstring(content.keywords[i], query_lower)})

\* A topic becomes the best one only when it beats the best score by two.
ReplacesBestByTwo(score, best_score) == score > best_score + 1

\* A later topic that scores exactly as the best one replaces it.
ReplacesBestOnTie(score, best_score) == score >= best_score

\* if score > best_score
ReplacesBest(score, best_score) == score > best_score

\* The loop `for topic, content in self.knowledge_base.items()`, from item i on.
\* st holds the loop's variables: best_match, best_score and topic, the loop
\* variable itself, which stays bound to the last key after the loop.
RECURSIVE FAQLoop(_, _, _, _)
FAQLoop(kb, query_lower, i, st) ==
    IF i > Len(kb) THEN st
    ELSE LET content == kb[i].content
             score == FAQScore(content, query_lower)
             bound == [st EXCEPT !.topic = Some(kb[i].topic)]
         IN  FAQLoop(kb, query_lower, i + 1,
                 IF ReplacesBest(score, bound.best_score)
                 THEN [bound EXCEPT !.best_score = score,
                                    !.best_match = Some(content)]
                 ELSE bound)

\* data={"topic": topic}: the loop variable as the loop left it.
FAQData(kb, st) == Some([topic |-> st.topic[1]])

\* handle that asks for the rewrite a second time when the first call raised.
FAQHandleRetriesRewrite(kb, llm, query, rw) ==
    LET query_lower == Lower(query)
        st == FAQLoop(kb, query_lower, 1,
                      [best_match |-> None, best_score |-> 0, topic |-> None])
    IN  IF st.best_match # None
        THEN LET answer == st.best_match[1].answer
             IN  [ret |-> AgentResponse(TRUE,
                             IF llm THEN FAQAgent_refine(query, answer, rw)
                                    ELSE answer,
                             FAQData(kb, st), FALSE),
                  calls |-> IF ~llm THEN <<>>
                            ELSE IF rw = "raise" THEN <<"rewrite", "rewrite">>
                            ELSE <<"rewrite">>,
                  best_match |-> st.best_match]
        ELSE [ret |-> AgentResponse(FALSE, FAQ_NO_INFO, None, FALSE),
              calls |-> <<>>,
              best_match |-> st.best_match]

\* FAQAgent.handle(query).  llm: whether the agent was given a capability.
\* Returns the AgentResponse, the capability calls made and, for the observer,
\* best_match as the loop left it.
FAQAgent_handle(kb, llm, query, rw) ==
    LET query_lower == Lower(query)
        st == FAQLoop(kb, query_lower, 1,
                      [best_match |-> None, best_score |-> 0, topic |-> None])
    IN  IF st.best_match # None
        THEN LET answer == st.best_match[1].answer
             IN  [ret |-> AgentResponse(TRUE,
                             IF llm THEN FAQAgent_refine(query, answer, rw)
                                    ELSE answer,
                             FAQData(kb, st), FALSE),
                  calls |-> IF llm THEN <<"rewrite">> ELSE <<>>,
                  best_match |-> st.best_match]
        ELSE [ret |-> AgentResponse(FALSE, FAQ_NO_INFO, None, FALSE),
              calls |-> <<>>,
              best_match |-> st.best_match]

-----------------------------------------------------------------------------
\* agents/order_agent.py

ORDER_ID_PROMPT == <<"Please provide your order ID (format: ORD-12345).">>

SUPPORT_EMAIL == "support@store.com"

\* The not-found message without the id interpolated.
OrderNotFoundWithoutId(order_id) ==
    <<"Order not found. Please verify your order number or contact ",
      SUPPORT_EMAIL, ".">>

\* f"Order {order_id} not found. Please verify your order number or contact support@store.com."
OrderNotFound(order_id) ==
    <<"Order ">> \o order_id
        \o <<" not found. Please verify your order number or contact ",
             SUPPORT_EMAIL, ".">>

IsDigit(c) == c \in {"0", "1", "2", "3", "4", "5", "6", "7", "8", "9"}

\* The pattern ORD-\d{5} matches at position i of s.
PatternAt(s, i) ==
    /\ i + 8 <= Len(s)
    /\ SubSeq(s, i, i + 3) = <<"O", "R", "D", "-">>
    /\ \A k \in 4..8 : IsDigit(s[i + k])

\* OrderAgent._extract_order_id: re.search(r'ORD-\d{5}', query.upper()),
\* the leftmost match or None.
OrderAgent_extract_order_id(query) ==
    LET upper == Upper(query)
        hits == {i \in 1..Len(upper) : PatternAt(upper, i)}
    IN  IF hits = {} THEN None
        ELSE LET first == CHOOSE i \in hits : \A j \in hits : i <= j
             IN  Some(SubSeq(upper, first, first + 8))

\* _format_order without the tracking clause.
FormatOrderWithoutTracking(order) ==
    LET items == order.items
        items_str ==
            IF Len(items) > 0
            THEN Join([i \in DOMAIN items |-> items[i].name])
            ELSE <<"your items">>
    IN  <<"Order ">> \o order.order_id \o <<" (">> \o items_str
            \o <<") is ">> \o order.status \o <<".">>
            \o (IF order.delivery_date # <<>>
                THEN <<" Expected delivery: ">> \o order.delivery_date \o <<".">>
                ELSE <<>>)

\* OrderAgent._format_order.  items is a list of dicts with a name or of
\* plain strs (an item is [isDict, name]); tracking and delivery_date are
\* "" when the record has none.
OrderAgent_format_order(order) ==
    LET items == order.items
        items_str ==
            IF Len(items) > 0
            THEN Join([i \in DOMAIN items |-> items[i].name])
            ELSE <<"your items">>
    IN  <<"Order ">> \o order.order_id \o <<" (">> \o items_str
            \o <<") is ">> \o order.status \o <<".">>
            \o (IF order.tracking # <<>>
                THEN <<" Tracking: ">> \o order.tracking \o <<".">> ELSE <<>>)
            \o (IF order.delivery_date # <<>>
                THEN <<" Expected delivery: ">> \o order.delivery_date \o <<".">>
                ELSE <<>>)

\* OrderAgent._refine: the rewrite, and the factual message when it raises.
OrderAgent_refine(query, message, rw) ==
    IF rw = "raise" THEN message ELSE Strip(Strip(Generate(rw, message)))

\* A lookup that puts the id in upper case first.
OrdersGetUpperCased(ords, order_id) ==
    IF Upper(order_id) \in DOMAIN ords THEN Some(ords[Upper(order_id)]) ELSE None

\* self.orders.get(order_id)
OrdersGet(ords, order_id) ==
    IF order_id \in DOMAIN ords THEN Some(ords[order_id]) ELSE None

\* handle that asks for an order id whenever the lookup finds nothing, a
\* given id included.
HandleAsksOnEveryMiss(ords, llm, query, order_id, rw) ==
    LET id == IF ~Truthy(order_id)
              THEN OrderAgent_extract_order_id(query) ELSE order_id
        order == IF Truthy(id) THEN OrdersGet(ords, id[1]) ELSE None
    IN  IF order = None
        THEN [ret |-> AgentResponse(FALSE, ORDER_ID_PROMPT, None, TRUE),
              calls |-> <<>>]
        ELSE LET message == OrderAgent_format_order(order[1])
             IN  [ret |-> AgentResponse(TRUE,
                             IF llm THEN OrderAgent_refine(query, message, rw)
                             ELSE message,
                             order, FALSE),
                  calls |-> IF llm THEN <<"rewrite">> ELSE <<>>]

\* OrderAgent.handle(query, order_id=None).  llm: whether the agent was given
\* a capability.  Returns the AgentResponse and the capability calls made.
OrderAgent_handle(ords, llm, query, order_id, rw) ==
    LET id == IF ~Truthy(order_id)
              THEN OrderAgent_extract_order_id(query) ELSE order_id
    IN  IF ~Truthy(id)
        THEN [ret |-> AgentResponse(FALSE, ORDER_ID_PROMPT, None, TRUE),
              calls |-> <<>>]
        ELSE LET order == OrdersGet(ords, id[1])
             IN  IF order = None
                 THEN [ret |-> AgentResponse(FALSE, OrderNotFound(id[1]),
                                             None, FALSE),
                       calls |-> <<>>]
                 ELSE LET message == OrderAgent_format_order(order[1])
                      IN  [ret |-> AgentResponse(TRUE,
                                      IF llm
                                      THEN OrderAgent_refine(query, message, rw)
                                      ELSE message,
                                      order, FALSE),
                           calls |-> IF llm THEN <<"rewrite">> ELSE <<>>]

-----------------------------------------------------------------------------
\* router.py

\* if classification.intent == Intent.UNCLEAR or classification.confidence < 0.7
Threshold == 70

\* The fixed texts of the router.  The bullet character of the source's lists
\* is written "*".

CLARIFY ==
    <<"Could you clarify? Are you asking about:\n* Store policies (hours, returns, shipping)?\n* Order status (provide order ID: ORD-XXXXX)?">>

ESCALATION ==
    <<"Let me connect you with support:\n* Email: ", SUPPORT_EMAIL,
      "\n* Phone: ", "1-800-SHOP-NOW">>

FAQ_FALLBACK ==
    <<"I don't have that info. I can help with: hours, returns, shipping, payment, contact.">>

\* dict.get(key, default)
DictGet(d, k, default) == IF k \in DOMAIN d THEN d[k] ELSE default

\* d[k] = v
DictSet(d, k, v) == [x \in DOMAIN d \cup {k} |-> IF x = k THEN v ELSE d[x]]

\* del d[k]
DictDel(d, k) == [x \in DOMAIN d \ {k} |-> d[x]]

\* An entities lookup that finds nothing.
EntityGetFindsNothing(entities, k) == None

\* classification.entities.get("order_id")
EntityGet(entities, k) == IF k \in DOMAIN entities THEN Some(entities[k]) ELSE None

\* LLMRouter._escalate
LLMRouter_escalate(query) == FinalResponse(query, UNCLEAR, 0, ESCALATION, TRUE)

\* The gate without its confidence threshold.
IsUnclearIntentOnly(classification) == classification.intent = UNCLEAR

\* The gating policy of route, step 2.
IsUnclear(classification) ==
    classification.intent = UNCLEAR \/ classification.confidence < Threshold

\* _handle_unclear without `self.unclear_count[session_id] = 1`.
HandleUnclearNeverStores(uc, query, classification, session_id) ==
    LET count == DictGet(uc, session_id, 0)
    IN  IF count = 0
        THEN [ret |-> FinalResponse(query, UNCLEAR, classification.confidence,
                                    CLARIFY, FALSE),
              unclear_count |-> uc,
              calls |-> <<"unclear_count.get">>]
        ELSE [ret |-> LLMRouter_escalate(query), unclear_count |-> uc,
              calls |-> <<"unclear_count.get">>]

\* _handle_unclear after `count = self.unclear_count.get(session_id, 0)`
\* with a branch that stores nothing.
BranchNeverStores(count, uc, query, classification, session_id) ==
    IF count = 0
    THEN [ret |-> FinalResponse(query, UNCLEAR, classification.confidence,
                                CLARIFY, FALSE),
          unclear_count |-> uc, calls |-> <<>>]
    ELSE [ret |-> LLMRouter_escalate(query), unclear_count |-> uc,
          calls |-> <<>>]

\* The branch with an escalation that counts the call.
BranchCountsEveryCall(count, uc, query, classification, session_id) ==
    IF count = 0
    THEN [ret |-> FinalResponse(query, UNCLEAR, classification.confidence,
                                CLARIFY, FALSE),
          unclear_count |-> DictSet(uc, session_id, 1),
          calls |-> <<"unclear_count.set">>]
    ELSE [ret |-> LLMRouter_escalate(query),
          unclear_count |-> DictSet(uc, session_id, count + 1),
          calls |-> <<"unclear_count.set">>]

\* The branch with an escalation that clears the session's counter.
BranchClearsOnEscalate(count, uc, query, classification, session_id) ==
    IF count = 0
    THEN [ret |-> FinalResponse(query, UNCLEAR, classification.confidence,
                                CLARIFY, FALSE),
          unclear_count |-> DictSet(uc, session_id, 1),
          calls |-> <<"unclear_count.set">>]
    ELSE [ret |-> LLMRouter_escalate(query),
          unclear_count |-> DictDel(uc, session_id),
          calls |-> <<"unclear_count.del">>]

\* LLMRouter._handle_unclear after `count = self.unclear_count.get(session_id,
\* 0)`: the branch on the local count, over the counter map as it is when the
\* branch runs.
LLMRouter_handle_unclear_branch(count, uc, query, classification, session_id) ==
    IF count = 0
    THEN [ret |-> FinalResponse(query, UNCLEAR, classification.confidence,
                                CLARIFY, FALSE),
          unclear_count |-> DictSet(uc, session_id, 1),
          calls |-> <<"unclear_count.set">>]
    ELSE [ret |-> LLMRouter_escalate(query), unclear_count |-> uc,
          calls |-> <<>>]

\* LLMRouter._handle_unclear, run without interruption: the response, the
\* counter map it leaves and its accesses to the counter map.
LLMRouter_handle_unclear(uc, query, classification, session_id) ==
    LET count == DictGet(uc, session_id, 0)
        r == LLMRouter_handle_unclear_branch(count, uc, query, classification,
                                             session_id)
    IN  [ret |-> r.ret, unclear_count |-> r.unclear_count,
         calls |-> <<"unclear_count.get">> \o r.calls]

\* Step 4 with the fixed fallback for a failure of either handler.
RespondFallbackForEveryIntent(query, classification, agent_response) ==
    IF agent_response.needs_clarification
    THEN FinalResponse(query, classification.intent, classification.confidence,
                       agent_response.message, FALSE)
    ELSE IF ~agent_response.success
    THEN FinalResponse(query, classification.intent, classification.confidence,
                       FAQ_FALLBACK, FALSE)
    ELSE FinalResponse(query, classification.intent, classification.confidence,
                       agent_response.message, FALSE)

\* Step 4 with the handler's own message passed through for every intent.
RespondPassesHandlerMessage(query, classification, agent_response) ==
    FinalResponse(query, classification.intent, classification.confidence,
                  agent_response.message, FALSE)

\* Step 4 with a handler's failure escalated instead of explained.
RespondEscalatesOnFailure(query, classification, agent_response) ==
    IF agent_response.needs_clarification
    THEN FinalResponse(query, classification.intent, classification.confidence,
                       agent_response.message, FALSE)
    ELSE IF ~agent_response.success
    THEN LLMRouter_escalate(query)
    ELSE FinalResponse(query, classification.intent, classification.confidence,
                       agent_response.message, FALSE)

\* route, step 4: the handler's outcome as a FinalResponse.
LLMRouter_respond(query, classification, agent_response) ==
    IF agent_response.needs_clarification
    THEN FinalResponse(query, classification.intent, classification.confidence,
                       agent_response.message, FALSE)
    ELSE IF ~agent_response.success
    THEN FinalResponse(query, classification.intent, classification.confidence,
                       IF classification.intent = FAQ
                       THEN FAQ_FALLBACK ELSE agent_response.message,
                       FALSE)
    ELSE FinalResponse(query, classification.intent, classification.confidence,
                       agent_response.message, FALSE)

\* A failed classification treated as an unclear one.
ClassificationFailedCountsAsUnclear(uc, query, session_id) ==
    LET r == LLMRouter_handle_unclear(uc, query, [confidence |-> 0], session_id)
    IN  [ret |-> r.ret, unclear_count |-> r.unclear_count,
         calls |-> <<"classify">> \o r.calls, agent |-> None, hint |-> None]

\* route, step 1, when llm.generate_json raised: escalate, the counter map
\* neither read nor written.
LLMRouter_classification_failed(uc, query, session_id) ==
    [ret |-> LLMRouter_escalate(query), unclear_count |-> uc,
     calls |-> <<"classify">>, agent |-> None, hint |-> None]

\* route that forgets the session's counter once a handler has answered.
RouteClearsCounterOnSuccess(uc, kb, ords, query, session_id, cls, rw) ==
    IF cls = None
    THEN LLMRouter_classification_failed(uc, query, session_id)
    ELSE LET classification == cls[1]
         IN  IF IsUnclear(classification)
             THEN LET r == LLMRouter_handle_unclear(uc, query, classification,
                                                    session_id)
                  IN  [ret |-> r.ret, unclear_count |-> r.unclear_count,
                       calls |-> <<"classify">> \o r.calls, agent |-> None,
                       hint |-> None]
             ELSE LET order_id ==
                          IF classification.intent = ORDER_STATUS
                          THEN EntityGet(classification.entities, "order_id")
                          ELSE None
                      a == IF classification.intent = FAQ
                           THEN FAQAgent_handle(kb, TRUE, query, rw)
                           ELSE OrderAgent_handle(ords, TRUE, query, order_id, rw)
                  IN  [ret |-> LLMRouter_respond(query, classification, a.ret),
                       unclear_count |-> IF a.ret.success
                                         THEN DictDel(uc, session_id) ELSE uc,
                       calls |-> <<"classify",
                                   IF classification.intent = FAQ
                                   THEN "faq_agent.handle"
                                   ELSE "order_agent.handle">> \o a.calls,
                       agent |-> Some(a.ret), hint |-> order_id]

\* LLMRouter.route(query, session_id).  cls is what llm.generate_json did:
\* None when it raised, Some(classification) when it returned.  rw is what the
\* capability does if a handler asks it for a rewrite.  Both handlers were
\* built with the router's capability (LLMRouter.__init__).
\* Returns the FinalResponse, the counter map the call leaves, the calls made
\* in order and, for the observer, the handler's outcome if one was invoked
\* and the order_id argument order_agent.handle was given.
LLMRouter_route(uc, kb, ords, query, session_id, cls, rw) ==
    IF cls = None
    THEN LLMRouter_classification_failed(uc, query, session_id)
    ELSE LET classification == cls[1]
         IN  IF IsUnclear(classification)
             THEN LET r == LLMRouter_handle_unclear(uc, query, classification,
                                                    session_id)
                  IN  [ret |-> r.ret, unclear_count |-> r.unclear_count,
                       calls |-> <<"classify">> \o r.calls, agent |-> None,
                       hint |-> None]
             ELSE IF classification.intent = FAQ
             THEN LET a == FAQAgent_handle(kb, TRUE, query, rw)
                  IN  [ret |-> LLMRouter_respond(query, classification, a.ret),
                       unclear_count |-> uc,
                       calls |-> <<"classify", "faq_agent.handle">> \o a.calls,
                       agent |-> Some(a.ret), hint |-> None]
             ELSE IF classification.intent = ORDER_STATUS
             THEN LET order_id == EntityGet(classification.entities, "order_id")
                      a == OrderAgent_handle(ords, TRUE, query, order_id, rw)
                  IN  [ret |-> LLMRouter_respond(query, classification, a.ret),
                       unclear_count |-> uc,
                       calls |-> <<"classify", "order_agent.handle">> \o a.calls,
                       agent |-> Some(a.ret), hint |-> order_id]
             ELSE [ret |-> LLMRouter_escalate(query), unclear_count |-> uc,
                   calls |-> <<"classify">>, agent |-> None, hint |-> None]

\* reset_session that empties the whole counter map.
ResetSessionClearsAll(uc, session_id) == <<>>

\* reset_session that deletes nothing.
ResetSessionKeepsEntry(uc, session_id) == uc

\* LLMRouter.reset_session: the counter map it leaves.
LLMRouter_reset_session(uc, session_id) ==
    IF session_id \in DOMAIN uc THEN DictDel(uc, session_id) ELSE uc

-----------------------------------------------------------------------------
\* The data the handlers load (data/faq_knowledge_base.json and
\* data/orders_database.json) and the inputs of the calls.

W_hours == <<"h", "o", "u", "r", "s">>

W_open == <<"o", "p", "e", "n">>

W_return == <<"r", "e", "t", "u", "r", "n">>

W_ship == <<"s", "h", "i", "p">>

W_phone == <<"p", "h", "o", "n", "e">>

Topic_hours ==
    [topic |-> "hours",
     content |-> [keywords |-> <<W_hours, W_open>>,
                  answer |-> <<"We are open 9am-9pm, Monday to Saturday.">>]]

Topic_returns ==
    [topic |-> "returns",
     content |-> [keywords |-> <<W_return>>,
                  answer |-> <<"Returns are accepted within 30 days.">>]]

Topic_shipping ==
    [topic |-> "shipping",
     content |-> [keywords |-> <<W_ship>>,
                  answer |-> <<"Standard shipping takes 3-5 business days.">>]]

Topic_contact ==
    [topic |-> "contact",
     content |-> [keywords |-> <<W_phone>>,
                  answer |-> <<"Call us at 1-800-SHOP-NOW.">>]]

Topics == {Topic_hours, Topic_returns, Topic_shipping, Topic_contact}

\* The knowledge base of the router's FAQ handler.
KnowledgeBase == <<Topic_hours, Topic_returns, Topic_shipping>>

\* Knowledge bases of up to MaxTopics topics, in every order of their keys.
KnowledgeBases ==
    {kb \in UNION {[1..n -> Topics] : n \in 0..MaxTopics} :
        \A i, j \in DOMAIN kb : i # j => kb[i].topic # kb[j].topic}

Ord(digits) == <<"O", "R", "D", "-">> \o digits

ID_12345 == Ord(<<"1", "2", "3", "4", "5">>)

ID_11111 == Ord(<<"1", "1", "1", "1", "1">>)

ID_22222 == Ord(<<"2", "2", "2", "2", "2">>)

ID_99999 == Ord(<<"9", "9", "9", "9", "9">>)

OrderRecords ==
    (ID_12345 :>
        [order_id |-> ID_12345, status |-> <<"shipped">>,
         items |-> <<[isDict |-> TRUE, name |-> <<"Laptop">>],
                     [isDict |-> TRUE, name |-> <<"Mouse">>]>>,
         tracking |-> <<"1Z999">>, delivery_date |-> <<>>])
    @@ (ID_11111 :>
        [order_id |-> ID_11111, status |-> <<"processing">>,
         items |-> <<[isDict |-> FALSE, name |-> <<"Keyboard">>]>>,
         tracking |-> <<>>, delivery_date |-> <<"2024-02-01">>])
    @@ (ID_22222 :>
        [order_id |-> ID_22222, status |-> <<"delivered">>,
         items |-> <<>>,
         tracking |-> <<"1Z777">>, delivery_date |-> <<"2024-01-15">>])

\* Order records holding any of the three orders.
OrderDBs ==
    {[id \in ids |-> OrderRecords[id]] : ids \in SUBSET (DOMAIN OrderRecords)}

Sessions == {"default", "main-session"}

Q_hours == W_hours

Q_hi == <<"h", "i">>

Q_ord == <<"o", "r", "d", "-", "1", "2", "3", "4", "5">>

\* Queries given to route.
Queries == {Q_hours, Q_ord}

\* Queries given to FAQAgent.handle directly.
FAQQueries ==
    {<<>>, Q_hi, W_hours, Upper(W_hours),
     W_open \o <<" ">> \o W_hours,
     W_return \o <<" ">> \o W_hours,
     W_ship \o <<" ">> \o W_return,
     W_phone \o <<" ">> \o W_ship \o <<" ">> \o W_open}

\* Queries given to OrderAgent.handle directly.
OrderQueries ==
    {<<>>, Q_hi, Q_ord, ID_99999,
     <<"O", "R", "D", "-", "1", "2", "3">>,
     ID_99999 \o <<"1">>,
     <<"O", "r", "d", "-", "9", "9", "9", "9", "9", " ">> \o Q_ord,
     Q_ord \o <<" ">> \o ID_99999}

\* Hints given to OrderAgent.handle directly.
OrderHints ==
    {None, Some(<<>>), Some(ID_99999), Some(ID_12345), Some(ID_11111),
     Some(Lower(ID_12345)), Some(<<"1", "2", "3", "4", "5">>)}

Confidences == {69, 70}

\* The entities a classification can carry: none, an unknown id, a known id
\* and a string that is no order id.
EntitySets ==
    {<<>>, "order_id" :> ID_99999, "order_id" :> ID_22222,
     "order_id" :> <<"1", "2", "3", "4", "5">>}

\* What llm.generate_json can return to route (reasoning, which route never
\* reads, left out).
Classifications ==
    [intent : Intent, confidence : Confidences, entities : EntitySets]

-----------------------------------------------------------------------------
\* The state machine.

\* LLMRouter(llm) constructed, both data files loaded, nothing called yet.
Init ==
    /\ unclear_count = <<>>
    /\ knowledge_base = KnowledgeBase
    /\ orders = OrderRecords
    /\ last = [op |-> "init"]
    /\ hist = [s \in Sessions |-> "new"]
    /\ threads = <<>>

\* What llm.generate_json can do in a call of route: raise, or return.
ClassifyOutcomes == {None} \cup {Some(c) : c \in Classifications}

\* The observer's reading of "the classification is UNCLEAR or low-confidence".
SeenUnclear(cls) ==
    cls # None /\ (cls[1].intent = "unclear" \/ cls[1].confidence < 70)

\* The rewrite outcomes worth telling apart in a call of route: all of them
\* when a handler is reached, one otherwise (no rewrite is asked for).
RewritesOf(cls) ==
    IF cls = None \/ SeenUnclear(cls) THEN {"raise"} ELSE Rewrites

\* What llm.generate_json does in the calls of route made without a session
\* id: it raises, or returns an UNCLEAR intent, a low confidence or a confident
\* FAQ classification.
UnkeyedOutcomes ==
    {None,
     Some([intent |-> UNCLEAR, confidence |-> 70, entities |-> <<>>]),
     Some([intent |-> FAQ, confidence |-> 69, entities |-> <<>>]),
     Some([intent |-> FAQ, confidence |-> 70, entities |-> <<>>])}

\* A parameter that takes every session id to one and the same session.
SessionIdAlwaysDefault(session_arg) == "default"

\* The parameter `session_id: str = "default"` of route: the argument, or
\* "default" when the call gives none.
SessionId(session_arg) ==
    IF session_arg = None THEN "default" ELSE session_arg[1]

\* router.route(query, session_id), and router.route(query) when session_arg
\* is None.
Route(query, session_arg, cls, rw) ==
    \E session_id \in {SessionId(session_arg)} :
    \E r \in {LLMRouter_route(unclear_count, knowledge_base, orders,
                              query, session_id, cls, rw)} :
        /\ unclear_count' = r.unclear_count
        /\ last' = [op |-> "route", query |-> query, session_id |-> session_id,
                    session_arg |-> session_arg, cls |-> cls, ret |-> r.ret, calls |-> r.calls,
                    agent |-> r.agent, hint |-> r.hint,
                    rw |-> IF "rewrite" \in Range(r.calls) THEN rw ELSE "",
                    before |-> hist[session_id]]
        /\ hist' = IF SeenUnclear(cls)
                   THEN [hist EXCEPT ![session_id] =
                            IF @ \in {"asked", "repeated"} THEN "repeated"
                                                          ELSE "asked"]
                   ELSE hist
        /\ UNCHANGED <<knowledge_base, orders, threads>>

\* router.reset_session(session_id)
ResetSession(session_id) ==
    /\ unclear_count' = LLMRouter_reset_session(unclear_count, session_id)
    /\ last' = [op |-> "reset_session", session_id |-> session_id,
                before |-> hist[session_id]]
    /\ hist' = [hist EXCEPT ![session_id] =
                    IF @ = "asked" THEN "reset asked"
                    ELSE IF @ = "repeated" THEN "reset repeated"
                    ELSE "reset empty"]
    /\ UNCHANGED <<knowledge_base, orders, threads>>

Next ==
    \/ \E query \in Queries, session_id \in Sessions, cls \in ClassifyOutcomes :
       \E rw \in RewritesOf(cls) :
            Route(query, Some(session_id), cls, rw)
    \/ \E query \in Queries, cls \in UnkeyedOutcomes :
       \E rw \in RewritesOf(cls) :
            Route(query, None, cls, rw)
    \/ \E session_id \in Sessions : ResetSession(session_id)

Spec == Init /\ [][Next]_vars

\* FAQAgent.handle is a function of the knowledge base and its arguments:
\* FAQAgent(llm) constructed over any knowledge base, and one call of handle
\* with any arguments about to be made.
InitFAQ ==
    /\ unclear_count = <<>>
    /\ knowledge_base \in KnowledgeBases
    /\ orders = OrderRecords
    /\ last \in {[op |-> "call faq_agent.handle", llm |-> llm, query |-> query,
                  rw |-> rw] :
                     llm \in BOOLEAN, query \in FAQQueries, rw \in Rewrites}
    /\ hist = [s \in Sessions |-> "new"]
    /\ threads = <<>>

\* faq_agent.handle(query)
FAQHandle ==
    /\ last.op = "call faq_agent.handle"
    /\ \E a \in {FAQAgent_handle(knowledge_base, last.llm, last.query, last.rw)} :
         last' = [op |-> "faq_agent.handle", llm |-> last.llm,
                  query |-> last.query, rw |-> last.rw,
                  ret |-> a.ret, calls |-> a.calls, best_match |-> a.best_match]
    /\ UNCHANGED <<unclear_count, knowledge_base, orders, hist, threads>>

NextFAQ == FAQHandle

SpecFAQ == InitFAQ /\ [][NextFAQ]_vars

\* OrderAgent.handle is a function of the order records and its arguments:
\* OrderAgent(llm) constructed over any order records, and one call of handle
\* with any arguments about to be made.
InitOrder ==
    /\ unclear_count = <<>>
    /\ knowledge_base = KnowledgeBase
    /\ orders \in OrderDBs
    /\ last \in {[op |-> "call order_agent.handle", llm |-> llm,
                  query |-> query, order_id |-> order_id, rw |-> rw] :
                     llm \in BOOLEAN, query \in OrderQueries,
                     order_id \in OrderHints, rw \in Rewrites}
    /\ hist = [s \in Sessions |-> "new"]
    /\ threads = <<>>

\* order_agent.handle(query, order_id)
OrderHandle ==
    /\ last.op = "call order_agent.handle"
    /\ \E a \in {OrderAgent_handle(orders, last.llm, last.query, last.order_id,
                                   last.rw)} :
         last' = [op |-> "order_agent.handle", llm |-> last.llm,
                  query |-> last.query, order_id |-> last.order_id,
                  rw |-> last.rw, ret |-> a.ret, calls |-> a.calls]
    /\ UNCHANGED <<unclear_count, knowledge_base, orders, hist, threads>>

NextOrder == OrderHandle

SpecOrder == InitOrder /\ [][NextOrder]_vars

-----------------------------------------------------------------------------
\* Properties of the router (checked under Spec).

\* The most recent call was route, and its classification call returned an
\* UNCLEAR intent or a confidence below 0.70.
UnclearRoute == last.op = "route" /\ SeenUnclear(last.cls)

\* The handlers among the calls a route call made.
HandlersInvoked ==
    {last.calls[i] : i \in DOMAIN last.calls}
        \cap {"faq_agent.handle", "order_agent.handle"}

\* C1: for every session, starting with no counter entry, the first route call
\* classified UNCLEAR or below 0.70 returns the clarification message with
\* escalated=false, and the second such call for the session, with no
\* reset_session in between, returns escalated=true.
C1_FirstClarifiesSecondEscalates ==
    UnclearRoute =>
        /\ last.before = "new" =>
              ~last.ret.escalated /\ last.ret.response = CLARIFY
        /\ last.before = "asked" => last.ret.escalated

\* C1's case: a session's second UNCLEAR/low-confidence call, escalated.
C1_Witness ==
    /\ UnclearRoute
    /\ last.before = "asked"
    /\ last.ret.escalated
    /\ last.session_id \in DOMAIN unclear_count

\* C2: a route call whose classification has confidence below 0.70 invokes
\* neither handler, whatever the intent and whatever the session's counter.
C2_LowConfidenceNeverDispatches ==
    (last.op = "route" /\ last.cls # None /\ last.cls[1].confidence < 70)
        => HandlersInvoked = {} /\ last.agent = None

\* C2's case: intent ORDER_STATUS at confidence 0.69, in a session that has a
\* counter entry, and no handler invoked.
C2_Witness ==
    /\ last.op = "route"
    /\ last.cls # None
    /\ last.cls[1].intent = "order_status"
    /\ last.cls[1].confidence = 69
    /\ last.before = "asked"
    /\ HandlersInvoked = {}

\* C3: after reset_session(s), whatever state s was in (no entry, awaiting
\* clarification, already escalated), the next UNCLEAR/low-confidence route
\* call for s returns the clarification response with escalated=false, as a
\* first occurrence does.
C3_ResetThenUnclearClarifies ==
    (UnclearRoute /\ last.before \in {"reset empty", "reset asked", "reset repeated"})
        => /\ ~last.ret.escalated
           /\ last.ret.response = CLARIFY
           /\ last.ret.intent = "unclear"
           /\ last.ret.confidence = last.cls[1].confidence
           /\ unclear_count[last.session_id] = 1

\* C3's case: reset_session on a session that had already escalated, and then
\* an UNCLEAR/low-confidence call answered by the clarification.
C3_Witness ==
    /\ UnclearRoute
    /\ last.before = "reset repeated"
    /\ last.ret.response = CLARIFY

\* C4: when the classification call fails, route returns the fixed escalation
\* response (intent UNCLEAR, confidence 0.0, escalated=true), invokes no
\* handler, and neither reads nor changes the counter map.
C4_ClassificationFailureEscalates ==
    [][(last'.op = "route" /\ last'.cls = None)
          => /\ last'.ret.escalated
             /\ last'.ret.intent = "unclear"
             /\ last'.ret.confidence = 0
             /\ last'.ret.response = ESCALATION
             /\ last'.calls = <<"classify">>
             /\ unclear_count' = unclear_count]_vars

\* C4's case: a failed classification in a session that is awaiting
\* clarification, its entry still there after the call.
C4_Witness ==
    /\ last.op = "route"
    /\ last.cls = None
    /\ last.before = "asked"
    /\ last.ret.escalated
    /\ last.session_id \in DOMAIN unclear_count

\* C5: escalated=true only on the escalation path (the classification call
\* failed, or the classification was UNCLEAR/low-confidence while the session's
\* counter was already >= 1); dispatch and the first clarification give
\* escalated=false; every escalated response has intent UNCLEAR and confidence
\* 0.0.
C5_EscalatedOnlyByEscalationPath ==
    [][last'.op = "route"
          => LET counter == DictGet(unclear_count, last'.session_id, 0)
                 failed == last'.cls = None
                 repeated == SeenUnclear(last'.cls) /\ counter >= 1
             IN  /\ last'.ret.escalated <=> (failed \/ repeated)
                 /\ last'.ret.escalated
                       => /\ last'.ret.intent = "unclear"
                          /\ last'.ret.confidence = 0]_vars

\* C5's case: a classification of intent FAQ below the threshold, in a
\* session whose counter is already 1, escalated with intent UNCLEAR and
\* confidence 0.0.
C5_Witness ==
    /\ UnclearRoute
    /\ last.cls[1].intent = "faq"
    /\ last.before \in {"asked", "repeated"}
    /\ unclear_count[last.session_id] = 1
    /\ last.ret.escalated
    /\ last.ret.intent = "unclear"
    /\ last.ret.confidence = 0

\* The most recent call was route and reached a handler.
Dispatched == last.op = "route" /\ last.agent # None

\* A message that includes the support contact.
HasSupportContact(m) == "support@store.com" \in Range(m)

\* A message that asks the user for more input.
IsClarificationRequest(m) == m \in {CLARIFY, ORDER_ID_PROMPT}

\* The failure paths of a route call.
ClassificationFailed == last.op = "route" /\ last.cls = None

UnmatchedFAQ ==
    /\ Dispatched
    /\ last.cls[1].intent = "faq"
    /\ ~last.agent[1].success

MissingOrderId == Dispatched /\ last.agent[1].needs_clarification

UnknownOrderId ==
    /\ Dispatched
    /\ last.cls[1].intent = "order_status"
    /\ ~last.agent[1].success
    /\ ~last.agent[1].needs_clarification

RewriteFailed == Dispatched /\ last.rw = "raise"

\* The status message of an order record, as the claim C7 words it.
StatusMessage(order) ==
    LET names == [i \in DOMAIN order.items |-> order.items[i].name]
        items == IF names = <<>> THEN <<"your items">> ELSE Join(names)
        tracking == IF order.tracking = <<>> THEN <<>>
                    ELSE <<" Tracking: ">> \o order.tracking \o <<".">>
        delivery == IF order.delivery_date = <<>> THEN <<>>
                    ELSE <<" Expected delivery: ">> \o order.delivery_date \o <<".">>
    IN  <<"Order ">> \o order.order_id \o <<" (">> \o items \o <<") is ">>
            \o order.status \o <<".">> \o tracking \o delivery

\* The factual texts of the data: the stored answers and the status messages.
FactualTexts ==
    {knowledge_base[i].content.answer : i \in DOMAIN knowledge_base}
        \cup {StatusMessage(orders[id]) : id \in DOMAIN orders}

\* C6 as stated: on every failure path (classification failure, unclear
\* classification, unmatched FAQ topic, missing order id, unknown order id,
\* rewrite failure) route returns a message of one of three shapes: a
\* clarification request, a not-found explanation that includes a support
\* contact, or the escalation message with the contact channels.
C6_ThreeShapesOnEveryFailure ==
    (\/ ClassificationFailed \/ UnclearRoute \/ UnmatchedFAQ
     \/ MissingOrderId \/ UnknownOrderId \/ RewriteFailed)
        => \/ IsClarificationRequest(last.ret.response)
           \/ HasSupportContact(last.ret.response)

\* C6 as amended: route returns a FinalResponse on every failure path; the
\* message is the escalation message after a classification failure, the
\* clarification or the escalation message after an unclear classification,
\* the order-id prompt for a missing order id, a not-found message with the
\* support contact for an unknown order id, the fixed FAQ fallback, which
\* lists the supported topics and carries no support contact, for an
\* unmatched FAQ topic, and the handler's unrewritten factual text after a
\* rewrite failure.
C6_ShapeOfEachFailurePath ==
    last.op = "route" =>
        LET m == last.ret.response
        IN  /\ ClassificationFailed => m = ESCALATION /\ HasSupportContact(m)
            /\ UnclearRoute => m \in {CLARIFY, ESCALATION}
            /\ MissingOrderId => m = ORDER_ID_PROMPT
            /\ UnknownOrderId =>
                    HasSupportContact(m) /\ m # ESCALATION /\ ~last.ret.escalated
            /\ UnmatchedFAQ => m = FAQ_FALLBACK /\ ~HasSupportContact(m)
            /\ RewriteFailed => m \in FactualTexts /\ last.agent[1].success

\* C6's case: an unmatched FAQ topic answered by the fallback that names no
\* support contact.
C6_Witness ==
    /\ UnmatchedFAQ
    /\ last.ret.response = FAQ_FALLBACK
    /\ ~HasSupportContact(last.ret.response)
    /\ ~IsClarificationRequest(last.ret.response)

\* The order id handle works with in a dispatched ORDER_STATUS call: the
\* order_id entity when there is a non-empty one, else the first ORD-ddddd of
\* the query.
RoutedOrderId ==
    LET hint == EntityGet(last.cls[1].entities, "order_id")
    IN  IF Truthy(hint) THEN hint ELSE OrderAgent_extract_order_id(last.query)

\* A route call classified ORDER_STATUS at confidence >= 0.70 whose order id
\* exists in the order records.
KnownOrderRouted ==
    /\ last.op = "route"
    /\ last.cls # None
    /\ last.cls[1].intent = "order_status"
    /\ last.cls[1].confidence >= 70
    /\ RoutedOrderId # None
    /\ RoutedOrderId[1] \in DOMAIN orders

\* C7 as stated: for a route call classified ORDER_STATUS at confidence >= 0.70
\* whose order id exists, the response is the formatted status message, with
\* escalated=false.
C7_ResponseIsStatusMessage ==
    KnownOrderRouted =>
        /\ last.ret.response = StatusMessage(orders[RoutedOrderId[1]])
        /\ ~last.ret.escalated

\* C7 as amended: for such a call the handler asks the capability for one
\* rewrite of the formatted status message; the response is the formatted
\* status message when the rewrite fails and the rewrite's text, stripped of
\* surrounding whitespace, when it succeeds; escalated=false either way.
C7_ResponseIsStatusMessageOrRewrite ==
    KnownOrderRouted =>
        LET message == StatusMessage(orders[RoutedOrderId[1]])
        IN  /\ ~last.ret.escalated
            /\ last.calls = <<"classify", "order_agent.handle", "rewrite">>
            /\ last.rw = "raise" => last.ret.response = message
            /\ last.rw # "raise" =>
                  last.ret.response = Strip(Generate(last.rw, message))

\* C7's case: an order with tracking and delivery date, found by its hint,
\* and the response the rewrite of its status message.
C7_Witness ==
    /\ KnownOrderRouted
    /\ RoutedOrderId[1] = ID_22222
    /\ last.rw = "prefix"
    /\ last.ret.response = <<"Sure! ">> \o StatusMessage(orders[ID_22222])
    /\ last.ret.response # StatusMessage(orders[ID_22222])

-----------------------------------------------------------------------------
\* Properties of FAQAgent.handle (checked under SpecFAQ).

FAQReturned == last.op = "faq_agent.handle"

\* C8: whenever the FAQ handler returns success=true, data is {"topic": T}
\* with T the name of the topic selected as best match, for every knowledge
\* base of more than one topic and every position of the matched topic.
C8_DataNamesMatchedTopic ==
    (FAQReturned /\ last.ret.success) =>
        \E i \in DOMAIN knowledge_base :
            /\ Some(knowledge_base[i].content) = last.best_match
            /\ last.ret.data = Some([topic |-> knowledge_base[i].topic])

\* The scores of the topics for the query of the most recent call.
TopicScores ==
    [i \in DOMAIN knowledge_base |->
        FAQScore(knowledge_base[i].content, Lower(last.query))]

\* The first topic, in iteration order, among those of maximal score.
FirstMaximal ==
    CHOOSE i \in DOMAIN knowledge_base :
        /\ \A j \in DOMAIN knowledge_base : TopicScores[j] <= TopicScores[i]
        /\ \A j \in 1..(i - 1) : TopicScores[j] < TopicScores[i]

\* C9: the selected topic is a function of (query, knowledge base): the first
\* topic, in iteration order, among those of maximal keyword-overlap score; a
\* later topic of equal score never replaces an earlier one.  (No topic is
\* selected when every score is 0.)
C9_FirstMaximalTopicSelected ==
    FAQReturned =>
        IF \E i \in DOMAIN knowledge_base : TopicScores[i] > 0
        THEN /\ last.best_match = Some(knowledge_base[FirstMaximal].content)
             /\ last.ret.success
             /\ ~last.llm =>
                   last.ret.message = knowledge_base[FirstMaximal].content.answer
        ELSE last.best_match = None /\ ~last.ret.success

\* C9's case: two topics tie at the maximal score and the earlier is selected.
C9_Witness ==
    /\ FAQReturned
    /\ \E i, j \in DOMAIN knowledge_base :
          /\ i < j
          /\ TopicScores[i] > 0
          /\ TopicScores[i] = TopicScores[j]
          /\ \A k \in DOMAIN knowledge_base : TopicScores[k] <= TopicScores[i]
          /\ last.best_match = Some(knowledge_base[i].content)

-----------------------------------------------------------------------------
\* Properties of OrderAgent.handle (checked under SpecOrder).

OrderReturned == last.op = "order_agent.handle"

\* An identifier of the form ORD- plus 5 digits.
WellFormedId(id) ==
    /\ Len(id) = 9
    /\ SubSeq(id, 1, 4) = <<"O", "R", "D", "-">>
    /\ \A k \in 5..9 : id[k] \in {"0", "1", "2", "3", "4", "5", "6", "7", "8", "9"}

\* The identifier handle was given: the hint when there is a non-empty one,
\* else the one extracted from the query.
GivenOrderId ==
    IF Truthy(last.order_id) THEN last.order_id
    ELSE OrderAgent_extract_order_id(last.query)

\* C10: for every identifier of the form ORD- plus 5 digits that is not a key
\* of the order records, supplied as hint or extracted from the query, handle
\* returns success=false, needs_clarification=false and a message that
\* contains the identifier.
C10_UnknownIdNotFound ==
    (/\ OrderReturned
     /\ GivenOrderId # None
     /\ WellFormedId(GivenOrderId[1])
     /\ GivenOrderId[1] \notin DOMAIN orders)
        => /\ ~last.ret.success
           /\ ~last.ret.needs_clarification
           /\ IsSubstring(GivenOrderId[1], last.ret.message)
           /\ HasSupportContact(last.ret.message)
           /\ last.ret.data = None
           /\ last.calls = <<>>

\* C10's case: no hint, a query whose first identifier (in mixed case) is
\* unknown and whose second is a key of the records; the message names the
\* first.
C10_Witness ==
    /\ OrderReturned
    /\ last.order_id = None
    /\ ID_12345 \in DOMAIN orders
    /\ GivenOrderId = Some(ID_99999)
    /\ IsSubstring(Upper(Q_ord), Upper(last.query))
    /\ IsSubstring(ID_99999, last.ret.message)
    /\ ~last.ret.success

\* ORD- followed by exactly 5 digits (a sixth digit does not follow) stands at
\* position i of s, letters in any case.
WellFormedIdAt(s, i) ==
    /\ i + 8 <= Len(s)
    /\ WellFormedId(Upper(SubSeq(s, i, i + 8)))
    /\ i + 9 <= Len(s) =>
          s[i + 9] \notin {"0", "1", "2", "3", "4", "5", "6", "7", "8", "9"}

\* The first well-formed identifier of the query, upper-cased, if there is one.
FirstWellFormedId(query) ==
    LET at == {i \in 1..Len(query) : WellFormedIdAt(query, i)}
    IN  IF at = {} THEN None
        ELSE LET first == CHOOSE i \in at : \A j \in at : i <= j
             IN  Some(Upper(SubSeq(query, first, first + 8)))

\* C11: when handle is given no hint, the identifier it extracts from the
\* query is the first occurrence, in any letter case, of ORD- followed by
\* exactly 5 digits, and there is no identifier (handle asks for one) when the
\* query has no such occurrence; ORD- followed by a shorter or a longer digit
\* run yields no identifier.
C11_ExtractsExactlyFiveDigits ==
    (OrderReturned /\ ~Truthy(last.order_id))
        => /\ GivenOrderId = FirstWellFormedId(last.query)
           /\ last.ret.needs_clarification
                 <=> FirstWellFormedId(last.query) = None

-----------------------------------------------------------------------------
\* Properties of the router, continued (checked under Spec).

\* A route call classified ORDER_STATUS at confidence >= 0.70.
OrderStatusRouted ==
    /\ last.op = "route"
    /\ last.cls # None
    /\ last.cls[1].intent = "order_status"
    /\ last.cls[1].confidence >= 70

\* The order_id entity of the most recent classification, if it has one.
RoutedHint == EntityGet(last.cls[1].entities, "order_id")

\* The query holds ORD- followed by five digits, letters in any case
\* (whatever follows the fifth digit).
HoldsFiveDigitId(query) ==
    \E i \in 1..Len(query) :
        /\ i + 8 <= Len(query)
        /\ WellFormedId(Upper(SubSeq(query, i, i + 8)))

\* The order id of the call is missing or malformed: a hint that is not ORD-
\* plus 5 digits or, without a hint, a query with no well-formed identifier.
MissingOrMalformedId ==
    IF Truthy(RoutedHint) THEN ~WellFormedId(RoutedHint[1])
    ELSE FirstWellFormedId(last.query) = None

\* C12 as stated: a missing or malformed order id (no hint and nothing
\* extractable, or a hint or query id that is not ORD- plus 5 digits) gives a
\* handler outcome with needs_clarification=true, which route returns as a
\* request for more input with escalated=false, whatever the session's
\* counter.
C12_MalformedIdAsksForId ==
    (OrderStatusRouted /\ MissingOrMalformedId)
        => /\ last.agent # None
           /\ last.agent[1].needs_clarification
           /\ IsClarificationRequest(last.ret.response)
           /\ ~last.ret.escalated

\* C12 as amended: the handler outcome has needs_clarification=true exactly
\* when there is no non-empty hint and the query holds no ORD- followed by
\* five digits; route then returns the order-id prompt with the
\* classification's intent and confidence and escalated=false, whatever the
\* session's counter.  A non-empty hint is not validated: one that is not
\* ORD- plus 5 digits is looked up as it is and gives the not-found message
\* naming it, with needs_clarification=false.
C12_MissingIdAsksForId ==
    OrderStatusRouted =>
        /\ last.agent # None
        /\ last.agent[1].needs_clarification
              <=> (~Truthy(RoutedHint) /\ ~HoldsFiveDigitId(last.query))
        /\ last.agent[1].needs_clarification
              => /\ last.ret.response = ORDER_ID_PROMPT
                 /\ ~last.agent[1].success
                 /\ ~last.ret.escalated
                 /\ last.ret.intent = "order_status"
                 /\ last.ret.confidence = last.cls[1].confidence
        /\ (Truthy(RoutedHint) /\ ~WellFormedId(RoutedHint[1]))
              => /\ ~last.agent[1].needs_clarification
                 /\ ~last.agent[1].success
                 /\ IsSubstring(RoutedHint[1], last.ret.response)
                 /\ HasSupportContact(last.ret.response)
                 /\ ~last.ret.escalated

\* C12's case: no hint and a query without an identifier, in a session whose
\* counter is already 1; the order-id prompt, not escalated.
C12_Witness ==
    /\ OrderStatusRouted
    /\ RoutedHint = None
    /\ last.query = Q_hours
    /\ last.before \in {"asked", "repeated"}
    /\ unclear_count[last.session_id] = 1
    /\ last.agent[1].needs_clarification
    /\ last.ret.response = ORDER_ID_PROMPT
    /\ ~last.ret.escalated

\* The number of rewrite calls the most recent route call made.
RewriteCalls == Cardinality({i \in DOMAIN last.calls : last.calls[i] = "rewrite"})

\* The handler outcome of the same call had the rewrite returned a text.
OutcomeWithRewrite ==
    IF last.cls[1].intent = "faq"
    THEN FAQAgent_handle(knowledge_base, TRUE, last.query, "echo").ret
    ELSE OrderAgent_handle(orders, TRUE, last.query, RoutedHint, "echo").ret

\* C13: when the rewrite call of FAQAgent._refine or OrderAgent._refine fails,
\* handle still returns: success=true, data as it would be had the rewrite
\* succeeded, and the unrewritten factual message (the stored answer of the
\* selected topic, the formatted status of the order); the rewrite was
\* attempted once and not again.
C13_RewriteFailureFallsBack ==
    (Dispatched /\ last.rw = "raise")
        => /\ last.agent[1].success
           /\ ~last.agent[1].needs_clarification
           /\ last.agent[1].data = OutcomeWithRewrite.data
           /\ last.agent[1].data # None
           /\ last.cls[1].intent = "faq" =>
                 last.agent[1].message
                     = knowledge_base[FirstMaximal].content.answer
           /\ last.cls[1].intent = "order_status" =>
                 last.agent[1].message
                     = StatusMessage(orders[RoutedOrderId[1]])
           /\ last.ret.response = last.agent[1].message
           /\ RewriteCalls = 1

\* C13's case: a matched FAQ topic whose rewrite raised; the stored answer is
\* returned with success=true.
C13_Witness ==
    /\ Dispatched
    /\ last.rw = "raise"
    /\ last.cls[1].intent = "faq"
    /\ last.agent[1].success
    /\ last.agent[1].message = Topic_hours.content.answer
    /\ RewriteCalls = 1

\* C15: a route call classified UNCLEAR or below 0.70 for a session whose
\* counter is >= 1 returns escalated=true and leaves the counter map as it
\* was (nothing incremented, nothing cleared); and a counter that is >= 1
\* stays as it is through every call other than reset_session for its own
\* session.  So from the moment a session has a counter >= 1, every such call
\* for it escalates, however many there are and whatever is called in
\* between, until reset_session is called for that session.
C15_EscalatesUntilReset ==
    [][/\ (/\ last'.op = "route"
           /\ SeenUnclear(last'.cls)
           /\ DictGet(unclear_count, last'.session_id, 0) >= 1)
              => /\ last'.ret.escalated
                 /\ unclear_count' = unclear_count
       /\ \A s \in Sessions :
              (/\ DictGet(unclear_count, s, 0) >= 1
               /\ ~(last'.op = "reset_session" /\ last'.session_id = s))
                  => DictGet(unclear_count', s, 0) = DictGet(unclear_count, s, 0)
      ]_vars

\* C15's case: the third or a later UNCLEAR/low-confidence call of a session,
\* escalated, with the counter still 1 and the other session's entry there
\* too.
C15_Witness ==
    /\ UnclearRoute
    /\ last.before = "repeated"
    /\ last.ret.escalated
    /\ DOMAIN unclear_count = Sessions
    /\ unclear_count[last.session_id] = 1

\* C16: in every reachable state the counter map has an entry for a session
\* exactly when the session has had at least one UNCLEAR/low-confidence
\* classification since its last reset_session (or since construction), and
\* every stored value is exactly 1; a failed classification and a dispatched
\* call create no entry.
C16_EntryIffUnclearSinceReset ==
    /\ \A s \in Sessions :
          s \in DOMAIN unclear_count <=> hist[s] \in {"asked", "repeated"}
    /\ DOMAIN unclear_count \subseteq Sessions
    /\ \A s \in DOMAIN unclear_count : unclear_count[s] = 1
    /\ (last.op = "route" /\ ~SeenUnclear(last.cls)
            /\ last.before \notin {"asked", "repeated"})
          => last.session_id \notin DOMAIN unclear_count

\* C16's case: a dispatched call for a session that was reset after two
\* UNCLEAR calls: it has no entry, while the other session's entry is 1.
C16_Witness ==
    /\ Dispatched
    /\ last.before = "reset repeated"
    /\ last.session_id \notin DOMAIN unclear_count
    /\ \E s \in Sessions \ {last.session_id} :
          /\ hist[s] = "repeated"
          /\ s \in DOMAIN unclear_count
          /\ unclear_count[s] = 1

\* C17: reset_session(s) removes the counter entry of s if there is one and
\* changes nothing otherwise; the entries of all other sessions stay as they
\* are; a second reset_session(s) right after the first leaves the state the
\* first one left; a call returns in every state it is made in.
C17_ResetRemovesOnlyOwnEntry ==
    [][last'.op = "reset_session"
          => LET s == last'.session_id
             IN  /\ s \notin DOMAIN unclear_count'
                 /\ DOMAIN unclear_count' = DOMAIN unclear_count \ {s}
                 /\ \A o \in DOMAIN unclear_count' :
                        unclear_count'[o] = unclear_count[o]
                 /\ s \notin DOMAIN unclear_count
                        => unclear_count' = unclear_count
                 /\ (last.op = "reset_session" /\ last.session_id = s)
                        => unclear_count' = unclear_count
      ]_vars

\* C17's case: reset_session for a session with an entry, while the other
\* session has one too: the first is gone, the second still 1.
C17_Witness ==
    /\ last.op = "reset_session"
    /\ last.before \in {"asked", "repeated"}
    /\ last.session_id \notin DOMAIN unclear_count
    /\ \E o \in Sessions \ {last.session_id} :
          /\ o \in DOMAIN unclear_count
          /\ unclear_count[o] = 1

\* How many times a call appears among the calls of the most recent route.
TimesCalled(name) ==
    Cardinality({i \in DOMAIN last.calls : last.calls[i] = name})

\* C18: when the classification call returns intent FAQ or ORDER_STATUS with
\* confidence >= 0.70 (0.70 included), route invokes the handler of that
\* intent exactly once and the other handler not at all; the order handler
\* is given the classification's order_id entity as hint when the entities
\* have that key, and no hint when they have not.
C18_DispatchesToMatchingHandler ==
    (/\ last.op = "route"
     /\ last.cls # None
     /\ last.cls[1].intent \in {"faq", "order_status"}
     /\ last.cls[1].confidence >= 70)
        => LET entities == last.cls[1].entities
           IN  /\ last.cls[1].intent = "faq"
                     => /\ TimesCalled("faq_agent.handle") = 1
                        /\ TimesCalled("order_agent.handle") = 0
               /\ last.cls[1].intent = "order_status"
                     => /\ TimesCalled("order_agent.handle") = 1
                        /\ TimesCalled("faq_agent.handle") = 0
                        /\ "order_id" \in DOMAIN entities
                              => last.hint = Some(entities["order_id"])
                        /\ "order_id" \notin DOMAIN entities
                              => last.hint = None
                        /\ ("order_id" \in DOMAIN entities
                               /\ entities["order_id"] \in DOMAIN orders)
                              => last.agent[1].data
                                    = Some(orders[entities["order_id"]])
               /\ last.agent # None
               /\ ~last.ret.escalated

\* C18's case: ORDER_STATUS at exactly 0.70 with an order_id entity, for a
\* query that names another order: the handler ran once, with the entity as
\* hint, and answered about the entity's order.
C18_Witness ==
    /\ last.op = "route"
    /\ last.cls # None
    /\ last.cls[1].intent = "order_status"
    /\ last.cls[1].confidence = 70
    /\ last.query = Q_ord
    /\ last.hint = Some(ID_22222)
    /\ TimesCalled("order_agent.handle") = 1
    /\ TimesCalled("faq_agent.handle") = 0
    /\ last.agent[1].data = Some(orders[ID_22222])

\* C19: for every dispatched route call the FinalResponse carries the
\* classification's intent and confidence and escalated=false, and its
\* response text is the handler's message when needs_clarification=true, the
\* router's fixed fallback text (not the handler's message) when the intent
\* is FAQ and success=false, the handler's own message when the intent is
\* ORDER_STATUS and success=false, and the handler's message when
\* success=true.
C19_ResponseTextPerOutcome ==
    Dispatched =>
        LET a == last.agent[1]
        IN  /\ last.ret.query = last.query
            /\ last.ret.intent = last.cls[1].intent
            /\ last.ret.confidence = last.cls[1].confidence
            /\ ~last.ret.escalated
            /\ a.needs_clarification => last.ret.response = a.message
            /\ (~a.needs_clarification /\ ~a.success
                    /\ last.cls[1].intent = "faq")
                  => /\ last.ret.response = FAQ_FALLBACK
                     /\ last.ret.response # a.message
            /\ (~a.needs_clarification /\ ~a.success
                    /\ last.cls[1].intent = "order_status")
                  => last.ret.response = a.message
            /\ a.success => last.ret.response = a.message

\* C19's case: an ORDER_STATUS call whose handler found no such order:
\* success=false without needs_clarification, and the response is the
\* handler's not-found message, with the classification's confidence.
C19_Witness ==
    /\ Dispatched
    /\ last.cls[1].intent = "order_status"
    /\ ~last.agent[1].success
    /\ ~last.agent[1].needs_clarification
    /\ last.ret.response = last.agent[1].message
    /\ last.ret.response # FAQ_FALLBACK
    /\ last.ret.confidence = 70
    /\ last.ret.intent = "order_status"

\* The lookup of the most recent dispatched call succeeded: some topic has a
\* keyword in the query, or the order id is a key of the order records.
LookupSucceeded ==
    IF last.cls[1].intent = "faq"
    THEN \E i \in DOMAIN knowledge_base : TopicScores[i] > 0
    ELSE last.agent[1].data # None

\* C20: within one route call the calls of the external capability are
\* ordered and bounded: the classification call is made exactly once and is
\* the first thing route does, before any handler; the rewrite call is made
\* at most once, by the handler route invoked and only after its lookup
\* succeeded; after a failed classification nothing else is called, and
\* after a failed rewrite nothing is called again.
C20_CapabilityCallsOrderedAndBounded ==
    last.op = "route" =>
        /\ last.calls # <<>>
        /\ last.calls[1] = "classify"
        /\ TimesCalled("classify") = 1
        /\ TimesCalled("rewrite") <= 1
        /\ last.cls = None => last.calls = <<"classify">>
        /\ \A i \in DOMAIN last.calls :
              last.calls[i] \in {"faq_agent.handle", "order_agent.handle"}
                  => i = 2
        /\ \A i \in DOMAIN last.calls :
              last.calls[i] = "rewrite"
                  => /\ i = 3
                     /\ i = Len(last.calls)
                     /\ last.calls[2]
                           \in {"faq_agent.handle", "order_agent.handle"}
                     /\ LookupSucceeded
                     /\ last.agent[1].success
        /\ Dispatched =>
              (TimesCalled("rewrite") = 1 <=> LookupSucceeded)

\* C20's case: an ORDER_STATUS call whose order was found and whose rewrite
\* raised: classification, handler, one rewrite, and nothing after it.
C20_Witness ==
    /\ Dispatched
    /\ last.rw = "raise"
    /\ last.calls = <<"classify", "order_agent.handle", "rewrite">>
    /\ last.agent[1].success

\* C22: a dispatched route call (intent FAQ or ORDER_STATUS at confidence
\* >= 0.70), whatever the outcome of its handler, leaves the counter map as
\* it was; so a session that is awaiting clarification is still awaiting it
\* after a dispatched call, and an UNCLEAR/low-confidence call that comes
\* right after a dispatched call of such a session escalates, although the
\* call before it was not an unclear one.
C22_DispatchLeavesCounters ==
    [][/\ (last'.op = "route" /\ last'.agent # None)
              => /\ unclear_count' = unclear_count
                 /\ hist' = hist
       /\ (/\ last.op = "route"
           /\ last.agent # None
           /\ last.before \in {"asked", "repeated"}
           /\ last'.op = "route"
           /\ last'.session_id = last.session_id
           /\ SeenUnclear(last'.cls))
              => /\ last'.ret.escalated
                 /\ DictGet(unclear_count', last'.session_id, 0) = 1
      ]_vars

\* C22's case: a session that got the clarification and then a query that
\* was dispatched and answered with success: its counter is still 1.
C22_Witness ==
    /\ Dispatched
    /\ last.agent[1].success
    /\ last.before = "asked"
    /\ hist[last.session_id] = "asked"
    /\ last.session_id \in DOMAIN unclear_count
    /\ unclear_count[last.session_id] = 1

\* The session a call was made for, read off its arguments: the session id
\* given, and "default" for a route call that gave none.
CalledSession(call) ==
    IF call.op = "reset_session" THEN call.session_id
    ELSE IF call.session_arg = <<>> THEN "default"
    ELSE call.session_arg[1]

\* C23: sessions are isolated.  A route or reset_session call for a session
\* a leaves the counter entry of every other session b as it was, and whether
\* an UNCLEAR/low-confidence route call for b gets the clarification or the
\* escalation depends on b's own entry only, so on nothing that was called
\* for a.  A route call without session id acts on the session "default", the
\* same one as a call that names it.
C23_SessionsIsolated ==
    [][last'.op \in {"route", "reset_session"}
          => LET a == CalledSession(last')
             IN  /\ \A b \in Sessions \ {a} :
                        /\ (b \in DOMAIN unclear_count')
                               <=> (b \in DOMAIN unclear_count)
                        /\ DictGet(unclear_count', b, 0)
                               = DictGet(unclear_count, b, 0)
                        /\ hist'[b] = hist[b]
                 /\ (last'.op = "route" /\ SeenUnclear(last'.cls))
                        => /\ last'.ret.escalated
                                 <=> DictGet(unclear_count, a, 0) >= 1
                           /\ last'.ret.escalated
                                 <=> hist[a] \in {"asked", "repeated"}
                           /\ DictGet(unclear_count', a, 0) = 1
                 /\ last'.op = "route" => last'.session_id = a
      ]_vars

\* C23's case: an UNCLEAR route call without session id, escalated because
\* "default" had been asked before, while the other session, reset after its
\* own clarification, has no entry.
C23_Witness ==
    /\ UnclearRoute
    /\ last.session_arg = None
    /\ last.before = "asked"
    /\ last.ret.escalated
    /\ unclear_count["default"] = 1
    /\ hist["main-session"] = "reset asked"
    /\ "main-session" \notin DOMAIN unclear_count

-----------------------------------------------------------------------------
\* The router called from two threads without a lock (section 5 of the
\* specification leaves the serialization to the caller).  A thread switch
\* can fall between any two bytecodes of route; the steps that matter are the
\* ones that touch self.unclear_count, the only state the calls share:
\* `count = self.unclear_count.get(session_id, 0)` and
\* `self.unclear_count[session_id] = 1`, each of them atomic.

Threads == {"t1", "t2"}

\* A thread that has not called route yet.
IdleThread ==
    [pc |-> "idle", query |-> <<>>, session_id |-> "", cls |-> None,
     count |-> 0, ret |-> None, overlapped |-> FALSE, rank |-> 0]

\* What llm.generate_json can do in a thread's call of route: raise, return
\* an UNCLEAR intent, a low confidence, or a confident FAQ classification.
ThreadOutcomes ==
    {None,
     Some([intent |-> UNCLEAR, confidence |-> 70, entities |-> <<>>]),
     Some([intent |-> FAQ, confidence |-> 69, entities |-> <<>>]),
     Some([intent |-> FAQ, confidence |-> 70, entities |-> <<>>])}

\* The threads that are inside route.
Running == {t \in Threads : threads[t].pc \notin {"idle", "done"}}

\* The threads whose call of route has returned.
Done == {t \in Threads : threads[t].pc = "done"}

\* LLMRouter(llm) constructed, both data files loaded, two threads about to
\* call route on it.
InitConc ==
    /\ unclear_count = <<>>
    /\ knowledge_base = KnowledgeBase
    /\ orders = OrderRecords
    /\ last = [op |-> "threads"]
    /\ hist = [s \in Sessions |-> "new"]
    /\ threads = [t \in Threads |-> IdleThread]

\* Thread t enters router.route(query, session_id).  overlapped: another
\* thread is inside route at that moment.
ThreadCall(t, query, session_id) ==
    /\ threads[t].pc = "idle"
    /\ threads' = [threads EXCEPT ![t] =
                      [@ EXCEPT !.pc = "classify", !.query = query,
                                !.session_id = session_id,
                                !.overlapped = Running # {}]]
    /\ UNCHANGED <<unclear_count, knowledge_base, orders, last, hist>>

\* Step 1 and the gate of step 2 in thread t, for a classification that is
\* UNCLEAR or below the threshold: route calls _handle_unclear.
ThreadClassifyUnclear(t, cls) ==
    /\ threads[t].pc = "classify"
    /\ cls # None
    /\ IsUnclear(cls[1])
    /\ threads' = [threads EXCEPT ![t] = [@ EXCEPT !.pc = "get", !.cls = cls]]
    /\ UNCHANGED <<unclear_count, knowledge_base, orders, last, hist>>

\* Step 1 to the return of route in thread t, when the classification call
\* raised or its result passed the gate: none of these paths touches
\* self.unclear_count.
ThreadRouteRest(t, cls, rw) ==
    /\ threads[t].pc = "classify"
    /\ IF cls = None THEN TRUE ELSE ~IsUnclear(cls[1])
    /\ \E r \in {LLMRouter_route(unclear_count, knowledge_base, orders,
                                 threads[t].query, threads[t].session_id,
                                 cls, rw)} :
         threads' = [threads EXCEPT ![t] =
                        [@ EXCEPT !.pc = "done", !.cls = cls, !.ret = Some(r.ret),
                                  !.rank = Cardinality(Done) + 1]]
    /\ UNCHANGED <<unclear_count, knowledge_base, orders, last, hist>>

\* count = self.unclear_count.get(session_id, 0) in thread t.
ThreadGet(t) ==
    /\ threads[t].pc = "get"
    /\ threads' = [threads EXCEPT ![t] =
                      [@ EXCEPT !.pc = "branch",
                                !.count = DictGet(unclear_count,
                                                  threads[t].session_id, 0)]]
    /\ UNCHANGED <<unclear_count, knowledge_base, orders, last, hist>>

\* The rest of _handle_unclear in thread t: the branch on its local count,
\* the store if the count was 0, and the return.
ThreadBranch(t) ==
    /\ threads[t].pc = "branch"
    /\ \E r \in {LLMRouter_handle_unclear_branch(
                     threads[t].count, unclear_count, threads[t].query,
                     threads[t].cls[1], threads[t].session_id)} :
         /\ unclear_count' = r.unclear_count
         /\ threads' = [threads EXCEPT ![t] =
                           [@ EXCEPT !.pc = "done", !.ret = Some(r.ret),
                                     !.rank = Cardinality(Done) + 1]]
    /\ UNCHANGED <<knowledge_base, orders, last, hist>>

NextConc ==
    \E t \in Threads :
        \/ \E query \in Queries, session_id \in Sessions :
              ThreadCall(t, query, session_id)
        \/ \E cls \in ThreadOutcomes : ThreadClassifyUnclear(t, cls)
        \/ \E cls \in ThreadOutcomes, rw \in Rewrites :
              ThreadRouteRest(t, cls, rw)
        \/ ThreadGet(t)
        \/ ThreadBranch(t)

SpecConc == InitConc /\ [][NextConc]_vars

-----------------------------------------------------------------------------
\* Properties of concurrent callers (checked under SpecConc).

\* Both threads made an UNCLEAR/low-confidence route call for one session,
\* which had no counter entry when the first of them began, and both calls
\* have returned.
BothUnclearReturned ==
    /\ Done = Threads
    /\ \A t \in Threads : SeenUnclear(threads[t].cls)
    /\ \A t, u \in Threads : threads[t].session_id = threads[u].session_id

\* One call had returned before the other began.
Serialized == \A t \in Threads : ~threads[t].overlapped

\* The call of thread t returned the clarification, not escalated.
Clarified(t) ==
    /\ threads[t].ret[1].response = CLARIFY
    /\ ~threads[t].ret[1].escalated

\* C14: of two UNCLEAR/low-confidence route calls for the same fresh session,
\* made from two threads without a lock, every serialized execution returns
\* one clarification and then one escalation; a call returns the
\* clarification exactly when its own read of the counter gave 0, so both
\* calls return the clarification only in an execution that is not
\* serialized, where both read 0 and both wrote 1.  (That such an execution
\* exists is what C14_Witness shows.)
C14_RaceOnlyWhenInterleaved ==
    BothUnclearReturned =>
        /\ \A t \in Threads :
              /\ Clarified(t) <=> threads[t].count = 0
              /\ ~Clarified(t) => threads[t].ret[1].escalated
              /\ DictGet(unclear_count, threads[t].session_id, 0) = 1
        /\ \E t \in Threads : Clarified(t)
        /\ Serialized =>
              \A t \in Threads :
                  /\ threads[t].rank = 1 => Clarified(t)
                  /\ threads[t].rank = 2 => threads[t].ret[1].escalated
        /\ (\A t \in Threads : Clarified(t)) => ~Serialized

\* C14's case: both calls read 0, both wrote 1 and both returned the
\* clarification; neither escalated.
C14_Witness ==
    /\ BothUnclearReturned
    /\ \A t \in Threads :
          /\ threads[t].count = 0
          /\ Clarified(t)
          /\ unclear_count[threads[t].session_id] = 1

-----------------------------------------------------------------------------
\* Properties of FAQAgent.handle, continued (checked under SpecFAQ).

\* Some topic has a keyword that occurs in the lower-cased query.
SomeKeywordOccurs ==
    \E i \in DOMAIN knowledge_base :
        \E k \in DOMAIN knowledge_base[i].content.keywords :
            IsSubstring(knowledge_base[i].content.keywords[k], Lower(last.query))

\* C21: handle returns success=true exactly when at least one topic has at
\* least one keyword occurring as a substring of the lower-cased query; when
\* every topic scores 0 it returns success=false, needs_clarification=false,
\* the fixed message listing the supported topics and no data, and makes no
\* rewrite call.
C21_SuccessIffSomeKeywordOccurs ==
    FAQReturned =>
        /\ last.ret.success <=> SomeKeywordOccurs
        /\ ~SomeKeywordOccurs
              => /\ ~last.ret.success
                 /\ ~last.ret.needs_clarification
                 /\ last.ret.message = FAQ_NO_INFO
                 /\ last.ret.data = None
                 /\ last.calls = <<>>

\* C21's case: an agent with a capability and three topics, a query none of
\* whose keywords occurs in: the fixed message, and no rewrite asked for.
C21_Witness ==
    /\ FAQReturned
    /\ last.llm
    /\ Len(knowledge_base) = 3
    /\ last.query = Q_hi
    /\ ~SomeKeywordOccurs
    /\ ~last.ret.success
    /\ last.ret.message = FAQ_NO_INFO
    /\ last.calls = <<>>

-----------------------------------------------------------------------------
\* Properties of OrderAgent.handle, continued (checked under SpecOrder).

\* The first occurrence in the query, letters in any case, of ORD- followed
\* by five digits, in upper case, if there is one.
FirstFiveDigitId(query) ==
    LET at == {i \in 1..Len(query) :
                  /\ i + 8 <= Len(query)
                  /\ WellFormedId(Upper(SubSeq(query, i, i + 8)))}
    IN  IF at = {} THEN None
        ELSE LET first == CHOOSE i \in at : \A j \in at : i <= j
             IN  Some(Upper(SubSeq(query, first, first + 8)))

\* The identifier handle is to use according to C24: a non-empty hint as it
\* is, else the upper-cased first match of the query.
IdToUse ==
    IF last.order_id # None /\ last.order_id[1] # <<>> THEN last.order_id
    ELSE FirstFiveDigitId(last.query)

\* C24: handle looks a non-empty hint up as it is, without normalizing its
\* case or checking its format and without scanning the query; with no hint
\* or an empty hint it uses the upper-cased first match extracted from the
\* query.  The identifier looked up, and named in a not-found message, is
\* therefore the hint unchanged or an upper-case ORD-ddddd string.
C24_HintVerbatimElseUpperCasedMatch ==
    OrderReturned =>
        /\ IdToUse = None
              => last.ret.needs_clarification /\ ~last.ret.success
        /\ IdToUse # None
              => /\ ~last.ret.needs_clarification
                 /\ IdToUse = last.order_id \/ WellFormedId(IdToUse[1])
                 /\ IdToUse[1] \in DOMAIN orders
                       => /\ last.ret.success
                          /\ last.ret.data = Some(orders[IdToUse[1]])
                 /\ IdToUse[1] \notin DOMAIN orders
                       => /\ ~last.ret.success
                          /\ last.ret.data = None
                          /\ last.ret.message = OrderNotFound(IdToUse[1])

\* C24's case: the hint "ord-12345" with order ORD-12345 in the records and
\* a query that names it: the hint is looked up in lower case, not found, and
\* named in lower case in the message.
C24_Witness ==
    /\ OrderReturned
    /\ last.order_id = Some(Q_ord)
    /\ last.query = Q_ord
    /\ ID_12345 \in DOMAIN orders
    /\ ~last.ret.success
    /\ IsSubstring(Q_ord, last.ret.message)
    /\ ~IsSubstring(ID_12345, last.ret.message)

====
